---- MODULE Spec2Model ----
(***************************************************************************)
(* Model of the signaling broker in src/app.py: the room registry (five    *)
(* parallel dictionaries guarded by one asyncio.Lock), the per-connection  *)
(* websocket_endpoint task, the relay router and the liveness monitor.     *)
(*                                                                         *)
(* Scheduling follows asyncio: a task runs without interruption from one   *)
(* suspension point to the next.  The suspension points modelled are the   *)
(* transport calls (accept, receive_text, send_text, close), the sleep of  *)
(* the monitor and an "async with room_lock" that has to wait.             *)
(* asyncio.Lock.acquire returns at once when the lock is free and nobody   *)
(* waits; otherwise the task joins the FIFO of waiters and release() hands *)
(* the lock to the first of them.  The lock is not reentrant: a task that  *)
(* awaits room_lock while it holds it joins the waiters, and only the      *)
(* holder releases.                                                        *)
(*                                                                         *)
(* Python list indices are 0-based, sequences here are 1-based.  The       *)
(* timestamp fields of outbound frames are left out (no code reads them).  *)
(***************************************************************************)
EXTENDS Integers, Sequences, FiniteSets, TLC

(* ------------------------------ bounds ------------------------------- *)
\* number of websocket connections that ever arrive
NConn == 5
\* number of text frames the broker reads over all connections
MaxRecv == 2
\* number of 30 s periods the clock advances
MaxTicks == 3
\* largest to_peer_id a client puts into a directed message
MaxTarget == 2
\* number of connections that name another room than MainRoom
MaxOtherRoom == 2
\* number of events from outside the broker: arrivals, client closes, text
\* frames and clock periods
MaxEvents == 5

(* ------------------------- program constants ------------------------- *)
\* "if current_count >= 4"
Capacity == 4
\* "await asyncio.sleep(30)"
SweepInterval == 30
\* "(current_time - last_heartbeat).total_seconds() > 60"
HeartbeatTimeout == 60

PEER_STATE_CONNECTING == "connecting"
PEER_STATE_CONNECTED == "connected"
PEER_STATE_DISCONNECTED == "disconnected"

(* ------------------------------ universe ------------------------------ *)
\* the room_id path parameters clients use
RoomIds == {"r1", "r2"}
MainRoom == "r1"
\* websocket objects, numbered in order of arrival; each is served by its
\* own websocket_endpoint task, named by the same number
Conns == 1..NConn
\* the task created by startup_event
Monitor == NConn + 1
Tasks == Conns \cup {Monitor}

\* an inbound text frame: json says what json.loads makes of it ("invalid":
\* JSONDecodeError, "nonobject": a value without .get, "object": a dict);
\* type is msg_data.get("type"); to_peer_id and from_peer_id are 0 when the
\* key is absent (an absent key and 0 are both falsy in the tests made)
Msg(j, ty, to) == [json |-> j, type |-> ty, to_peer_id |-> to, from_peer_id |-> 0]
NoMsg == Msg("none", "none", 0)
Messages ==
    {Msg("object", "heartbeat", 0), Msg("object", "get_peers", 0),
     Msg("object", "new_peer_joined", 0),
     Msg("invalid", "none", 0), Msg("nonobject", "none", 0)}
    \cup {Msg("object", "offer", to) : to \in 0..MaxTarget}

\* an outbound text frame
Frame(ty, pid, peers, m) == [type |-> ty, peer_id |-> pid, peers |-> peers, msg |-> m]

\* a call that is waiting for room_lock
Call(fn, r, ws, pid, m, ex, caller) ==
    [fn |-> fn, room |-> r, ws |-> ws, peer |-> pid, msg |-> m,
     exclude |-> ex, caller |-> caller]
NoRoom == "none"
NoCall == Call("none", NoRoom, 0, 0, Frame("none", 0, <<>>, NoMsg), 0, "none")

VARIABLES
    rooms,                     \* room id -> list of websockets
    room_keys,                 \* the keys of rooms in insertion order
    room_peer_ids,             \* room id -> list of peer ids
    room_peer_states,          \* room id -> (peer id -> state)
    room_peer_last_heartbeat,  \* room id -> (peer id -> time)
    next_peer_id,              \* room id -> next id
    room_lock,                 \* the set of tasks holding room_lock: {} or {t}
    waiters,                   \* room_lock._waiters: the tasks waiting, in order
    now,                       \* datetime.now(), in seconds
    ws_state,                  \* transport of each websocket
    room_id,                   \* path parameter of each connection
    pc,                        \* where each task is suspended
    call,                      \* the call each task in "lock_wait" is making
    sent,                      \* frames the broker sent on each websocket
    nrecv,                     \* text frames read so far
    nevents,                   \* events from outside the broker so far
    id_log,                    \* ids assigned in each room since it was created
    removals                   \* times each websocket's peer record was removed

registry == <<rooms, room_keys, room_peer_ids, room_peer_states,
              room_peer_last_heartbeat, next_peer_id>>
vars == <<rooms, room_keys, room_peer_ids, room_peer_states,
          room_peer_last_heartbeat, next_peer_id, room_lock, waiters, now,
          ws_state,
          room_id, pc, call, sent, nrecv, nevents, id_log, removals>>

(* ------------------------------ helpers ------------------------------- *)
Range(s) == {s[i] : i \in 1..Len(s)}
\* list.index(x): the first position of x
IndexOf(s, x) == CHOOSE i \in 1..Len(s) : s[i] = x /\ \A j \in 1..(i - 1) : s[j] # x
\* list.pop(i)
Pop(s, i) == SubSeq(s, 1, i - 1) \o SubSeq(s, i + 1, Len(s))
\* a pop that leaves the entry in the dictionary
DelKey_keeps(f, k) == f

\* del d[k] / d.pop(k, None)
DelKey(f, k) == [x \in DOMAIN f \ {k} |-> f[x]]
\* d[k] = v
SetKey(f, k, v) == [x \in DOMAIN f \cup {k} |-> IF x = k THEN v ELSE f[x]]
EmptyDict == [x \in {} |-> 0]
Min(S) == CHOOSE x \in S : \A y \in S : x <= y

Init ==
    /\ rooms = EmptyDict
    /\ room_keys = <<>>
    /\ room_peer_ids = EmptyDict
    /\ room_peer_states = EmptyDict
    /\ room_peer_last_heartbeat = EmptyDict
    /\ next_peer_id = EmptyDict
    /\ room_lock = {}
    /\ waiters = <<>>
    /\ now = 0
    /\ ws_state = [c \in Conns |-> "new"]
    /\ room_id = [c \in Conns |-> NoRoom]
    /\ pc = [t \in Tasks |-> IF t = Monitor THEN "sleep" ELSE "new"]
    /\ call = [t \in Tasks |-> NoCall]
    /\ sent = [c \in Conns |-> <<>>]
    /\ nrecv = 0
    /\ nevents = 0
    /\ id_log = [r \in RoomIds |-> <<>>]
    /\ removals = [c \in Conns |-> 0]


(* --------------------------- room_lock ------------------------------- *)
\* Lock.acquire returns without suspending (asyncio/locks.py, acquire)
CanTake == room_lock = {} /\ waiters = <<>>

\* task t leaves room_lock and runs on to the suspension point p; rest are
\* the tasks still waiting
Leave(t, p, rest) ==
    /\ pc' = [pc EXCEPT ![t] = p]
    /\ call' = [call EXCEPT ![t] = NoCall]
    /\ room_lock' = {}
    /\ waiters' = rest

\* task t suspends in "async with room_lock" for call k behind the tasks of
\* rest, while room_lock is held by the tasks of holder
Wait(t, k, holder, rest) ==
    /\ pc' = [pc EXCEPT ![t] = "lock_wait"]
    /\ call' = [call EXCEPT ![t] = k]
    /\ room_lock' = holder
    /\ waiters' = Append(rest, t)

NoFrame == Frame("none", 0, <<>>, NoMsg)

(* ------------------------- registry operations ------------------------ *)
\* lines 41-46: the room is created when absent
WithRoom(d, r, v) == IF r \in DOMAIN rooms THEN d ELSE SetKey(d, r, v)

\* an id counter that is not advanced
assign_peer_id_stale(counter) == [assigned_id |-> counter, next |-> counter]

\* lines 56 and 60: the id handed out and the counter after it
assign_peer_id(counter) == [assigned_id |-> counter, next |-> counter + 1]

\* a capacity test that is off by one
room_is_full_late(current_count) == current_count > Capacity

\* line 51: the room takes no further client
room_is_full(current_count) == current_count >= Capacity

\* an update that refreshes the heartbeat and forgets the state (line 129)
set_peer_state_keeps(S, H, r, peer_id, state) ==
    IF r \in DOMAIN S /\ peer_id \in DOMAIN S[r]
    THEN [states |-> S,
          heartbeats |-> [H EXCEPT ![r] = SetKey(@, peer_id, now)]]
    ELSE [states |-> S, heartbeats |-> H]

\* lines 128-130 on the dictionaries S (states) and H (heartbeats)
set_peer_state(S, H, r, peer_id, state) ==
    IF r \in DOMAIN S /\ peer_id \in DOMAIN S[r]
    THEN [states |-> [S EXCEPT ![r] = SetKey(@, peer_id, state)],
          heartbeats |-> [H EXCEPT ![r] = SetKey(@, peer_id, now)]]
    ELSE [states |-> S, heartbeats |-> H]

add_client_to_room(t, k, rest) ==
    LET r == k.room
        ws == k.ws
        rooms1 == WithRoom(rooms, r, <<>>)
        ids1 == WithRoom(room_peer_ids, r, <<>>)
        states1 == WithRoom(room_peer_states, r, EmptyDict)
        hb1 == WithRoom(room_peer_last_heartbeat, r, EmptyDict)
        next1 == WithRoom(next_peer_id, r, 1)
        keys1 == IF r \in DOMAIN rooms THEN room_keys ELSE Append(room_keys, r)
        log1 == IF r \in DOMAIN rooms THEN id_log[r] ELSE <<>>
        current_count == Len(rooms1[r])
        a == assign_peer_id(next1[r])
        states2 == [states1 EXCEPT ![r] = SetKey(@, a.assigned_id, PEER_STATE_CONNECTING)]
        hb2 == [hb1 EXCEPT ![r] = SetKey(@, a.assigned_id, now)]
        \* line 502, reached without suspending when nobody waits for the lock
        u == set_peer_state(states2, hb2, r, a.assigned_id, PEER_STATE_CONNECTED)
    IN  /\ UNCHANGED <<sent, removals>>
        /\ room_keys' = keys1
        /\ IF room_is_full(current_count)
           THEN /\ rooms' = rooms1
                /\ room_peer_ids' = ids1
                /\ room_peer_states' = states1
                /\ room_peer_last_heartbeat' = hb1
                /\ next_peer_id' = next1
                /\ id_log' = [id_log EXCEPT ![r] = log1]
                \* returns None: websocket_endpoint goes to lines 485-495
                /\ Leave(t, "reject", rest)
           ELSE /\ rooms' = [rooms1 EXCEPT ![r] = Append(@, ws)]
                /\ room_peer_ids' = [ids1 EXCEPT ![r] = Append(@, a.assigned_id)]
                /\ next_peer_id' = [next1 EXCEPT ![r] = a.next]
                /\ id_log' = [id_log EXCEPT ![r] = Append(log1, a.assigned_id)]
                /\ IF rest = <<>>
                   THEN /\ room_peer_states' = u.states
                        /\ room_peer_last_heartbeat' = u.heartbeats
                        /\ Leave(t, "welcome", rest)
                   ELSE /\ room_peer_states' = states2
                        /\ room_peer_last_heartbeat' = hb2
                        /\ Wait(t, Call("update_peer_state", r, ws, a.assigned_id,
                                        NoFrame, 0, "websocket_endpoint"), {}, rest)

update_peer_state(t, k, rest) ==
    LET u == set_peer_state(room_peer_states, room_peer_last_heartbeat, k.room, k.peer,
                            PEER_STATE_CONNECTED)
    IN  /\ room_peer_states' = u.states
        /\ room_peer_last_heartbeat' = u.heartbeats
        /\ UNCHANGED <<rooms, room_keys, room_peer_ids, next_peer_id, sent, id_log,
                       removals>>
        \* line 502 goes on to the welcome; line 153 returns into relay_message,
        \* which returns to the receive loop
        /\ Leave(t, IF k.caller = "websocket_endpoint" THEN "welcome" ELSE "receive", rest)

\* send_text of frame on each of clients but exclude_client (0: None): it
\* raises unless the transport is open, and every caller swallows that
RECURSIVE SendAll(_, _, _, _)
SendAll(s, clients, frame, exclude_client) ==
    IF clients = <<>> THEN s
    ELSE LET client == Head(clients)
             s1 == IF (exclude_client = 0 \/ client # exclude_client)
                      /\ ws_state[client] = "open"
                   THEN [s EXCEPT ![client] = Append(@, frame)]
                   ELSE s
         IN SendAll(s1, Tail(clients), frame, exclude_client)

\* where a task goes on once remove_client_from_room has returned
AfterRemove(t) == IF t = Monitor THEN "sleep" ELSE "done"

\* what is left of the caller once a call made under its lock has returned
AfterNested(t, k) ==
    IF k.caller = "remove_client_from_room" THEN AfterRemove(t) ELSE "receive"

broadcast_to_room(t, k, rest) ==
    LET r == k.room
    IN  /\ sent' = IF r \in DOMAIN rooms
                   THEN SendAll(sent, rooms[r], k.msg, k.exclude)
                   ELSE sent
        /\ IF k.caller = "remove_client_from_room"
              /\ r \in DOMAIN rooms /\ Len(rooms[r]) = 0
           THEN \* back in remove_client_from_room, lines 97-107
                /\ rooms' = DelKey(rooms, r)
                /\ room_keys' = Pop(room_keys, IndexOf(room_keys, r))
                /\ room_peer_ids' = DelKey(room_peer_ids, r)
                /\ room_peer_states' = DelKey(room_peer_states, r)
                /\ room_peer_last_heartbeat' = DelKey(room_peer_last_heartbeat, r)
                /\ next_peer_id' = DelKey(next_peer_id, r)
           ELSE UNCHANGED registry
        /\ UNCHANGED <<id_log, removals>>
        /\ Leave(t, AfterNested(t, k), rest)

send_to_peer(t, k, rest) ==
    LET r == k.room
        peer_id == k.peer
        found == /\ r \in DOMAIN rooms /\ r \in DOMAIN room_peer_ids
                 /\ peer_id \in Range(room_peer_ids[r])
                 /\ IndexOf(room_peer_ids[r], peer_id) <= Len(rooms[r])
    IN  /\ sent' = IF found
                   THEN SendAll(sent, <<rooms[r][IndexOf(room_peer_ids[r], peer_id)]>>,
                                k.msg, 0)
                   ELSE sent
        /\ UNCHANGED <<registry, id_log, removals>>
        /\ Leave(t, AfterNested(t, k), rest)

remove_client_from_room(t, k, rest) ==
    LET r == k.room
        websocket == k.ws
        member == r \in DOMAIN rooms /\ websocket \in Range(rooms[r])
        client_index == IndexOf(rooms[r], websocket)
        has_id == r \in DOMAIN room_peer_ids /\ client_index <= Len(room_peer_ids[r])
        removed_peer_id == room_peer_ids[r][client_index]
        emptied == Len(rooms[r]) = 1
    IN  /\ UNCHANGED <<sent, id_log>>
        /\ IF ~member
           THEN /\ UNCHANGED <<registry, removals>>
                /\ Leave(t, AfterRemove(t), rest)
           ELSE /\ removals' = [removals EXCEPT ![websocket] = @ + 1]
                /\ IF has_id
                   THEN \* lines 77-92: the record is taken out, then
                        \* notify_peer_disconnection calls broadcast_to_room,
                        \* which enters room_lock while this task holds it
                        /\ rooms' = [rooms EXCEPT ![r] = Pop(@, client_index)]
                        /\ room_peer_ids' = [room_peer_ids EXCEPT ![r] = Pop(@, client_index)]
                        /\ room_peer_states' =
                               IF r \in DOMAIN room_peer_states
                               THEN [room_peer_states EXCEPT ![r] = DelKey(@, removed_peer_id)]
                               ELSE room_peer_states
                        /\ room_peer_last_heartbeat' =
                               IF r \in DOMAIN room_peer_states
                               THEN [room_peer_last_heartbeat EXCEPT
                                        ![r] = DelKey(@, removed_peer_id)]
                               ELSE room_peer_last_heartbeat
                        /\ UNCHANGED <<room_keys, next_peer_id>>
                        /\ Wait(t, Call("broadcast_to_room", r, 0, removed_peer_id,
                                        Frame("peer_disconnected", removed_peer_id, <<>>, NoMsg),
                                        0, "remove_client_from_room"), {t}, rest)
                   ELSE \* lines 94-107: no id at that index
                        /\ rooms' = IF emptied THEN DelKey(rooms, r)
                                    ELSE [rooms EXCEPT ![r] = Pop(@, client_index)]
                        /\ room_keys' = IF emptied THEN Pop(room_keys, IndexOf(room_keys, r))
                                        ELSE room_keys
                        /\ room_peer_ids' = IF emptied THEN DelKey(room_peer_ids, r)
                                            ELSE room_peer_ids
                        /\ room_peer_states' = IF emptied THEN DelKey(room_peer_states, r)
                                               ELSE room_peer_states
                        /\ room_peer_last_heartbeat' =
                               IF emptied THEN DelKey(room_peer_last_heartbeat, r)
                               ELSE room_peer_last_heartbeat
                        /\ next_peer_id' = IF emptied THEN DelKey(next_peer_id, r)
                                           ELSE next_peer_id
                        /\ Leave(t, AfterRemove(t), rest)

\* a snapshot that leaves out the last peer of the room
peer_list_short(r) ==
    [i \in 1..(Len(room_peer_ids[r]) - 1) |->
        [id |-> room_peer_ids[r][i],
         state |-> IF room_peer_ids[r][i] \in DOMAIN room_peer_states[r]
                   THEN room_peer_states[r][room_peer_ids[r][i]]
                   ELSE "unknown"]]

\* lines 160-165 and 181-186: the id/state snapshot of a room
peer_list(r) ==
    [i \in 1..Len(room_peer_ids[r]) |->
        [id |-> room_peer_ids[r][i],
         state |-> IF room_peer_ids[r][i] \in DOMAIN room_peer_states[r]
                   THEN room_peer_states[r][room_peer_ids[r][i]]
                   ELSE "unknown"]]

\* lines 200-202: json.dumps of the message with the sender's id put in
\* (sender_peer_id 0: None)
with_sender(m, sender_peer_id) ==
    IF sender_peer_id # 0 THEN [m EXCEPT !.from_peer_id = sender_peer_id] ELSE m

relay_message(t, k, rest) ==
    LET r == k.room
        sender == k.ws
        message == k.msg.msg
        sender_index == IndexOf(rooms[r], sender)
        \* 0 stands for None
        sender_peer_id ==
            IF r \in DOMAIN room_peer_ids /\ sender_index <= Len(room_peer_ids[r])
            THEN room_peer_ids[r][sender_index] ELSE 0
        original_message == with_sender(message, sender_peer_id)
        \* a call made while this task holds room_lock
        Nested(c) == Wait(t, c, {t}, rest)
        \* relay_message leaves the lock and the receive loop goes on
        Return == Leave(t, "receive", rest)
    IN  /\ UNCHANGED <<registry, sent, id_log, removals>>
        /\ IF r \notin DOMAIN rooms THEN Return
           \* rooms[room_id].index(sender) raises ValueError (line 141, caught at 224)
           ELSE IF sender \notin Range(rooms[r]) THEN Return
           \* json.JSONDecodeError (line 219): the text goes out as it came in
           ELSE IF message.json = "invalid"
           THEN Nested(Call("broadcast_to_room", r, sender, sender_peer_id,
                            Frame("relay", 0, <<>>, message), sender, "relay_message"))
           \* msg_data.get raises AttributeError (line 148, caught at 224)
           ELSE IF message.json # "object" THEN Return
           ELSE IF message.type = "heartbeat"
           THEN IF sender_peer_id # 0
                THEN Nested(Call("update_peer_state", r, sender, sender_peer_id,
                                 NoFrame, 0, "relay_message"))
                ELSE Return
           ELSE IF message.type = "get_peers"
           THEN IF r \in DOMAIN room_peer_ids
                THEN \* line 172: sender.send_text is awaited with room_lock held
                     /\ room_lock' = {t}
                     /\ waiters' = rest
                     /\ pc' = [pc EXCEPT ![t] = "send_peer_list"]
                     /\ call' = [call EXCEPT ![t] =
                                    Call("send_text", r, sender, sender_peer_id,
                                         Frame("peer_list", 0, peer_list(r), NoMsg),
                                         0, "relay_message")]
                ELSE Return
           ELSE IF message.type = "new_peer_joined"
           THEN IF r \in DOMAIN room_peer_ids
                THEN Nested(Call("broadcast_to_room", r, sender, sender_peer_id,
                                 Frame("peer_update", 0, peer_list(r), message),
                                 sender, "relay_message"))
                ELSE Return
           ELSE IF original_message.to_peer_id # 0
           THEN Nested(Call("send_to_peer", r, sender, original_message.to_peer_id,
                            Frame("relay", 0, <<>>, original_message), 0, "relay_message"))
           ELSE Nested(Call("broadcast_to_room", r, sender, sender_peer_id,
                            Frame("relay", 0, <<>>, original_message), sender,
                            "relay_message"))

\* line 272: the peers of a room with no heartbeat for more than 60 seconds
dead_peers(r, current_time) ==
    IF r \in DOMAIN room_peer_last_heartbeat
    THEN {p \in DOMAIN room_peer_last_heartbeat[r] :
             current_time - room_peer_last_heartbeat[r][p] > HeartbeatTimeout}
    ELSE {}

\* lines 279-281: the dead peers whose websocket is found
evictable(r, current_time) ==
    {p \in dead_peers(r, current_time) :
        /\ r \in DOMAIN room_peer_ids /\ p \in Range(room_peer_ids[r])
        /\ IndexOf(room_peer_ids[r], p) <= Len(rooms[r])}

\* current_time is datetime.now() of line 264
check_connection_health(t, k, rest, current_time) ==
    LET \* rooms in the order of list(rooms.keys()), peers in the order of the
        \* heartbeat dictionary (ids are inserted in increasing order)
        hit == {i \in 1..Len(room_keys) : evictable(room_keys[i], current_time) # {}}
        r == room_keys[Min(hit)]
        peer_id == Min(evictable(r, current_time))
        dead_websocket == rooms[r][IndexOf(room_peer_ids[r], peer_id)]
    IN  /\ UNCHANGED <<registry, sent, id_log, removals>>
        /\ IF hit = {}
           THEN /\ Leave(t, "sleep", rest)
                /\ ws_state' = ws_state
           ELSE \* lines 284-288: close the websocket, then call
                \* remove_client_from_room with room_lock held
                /\ ws_state' = [ws_state EXCEPT ![dead_websocket] =
                                   IF @ = "open" THEN "server_closed" ELSE @]
                /\ Wait(t, Call("remove_client_from_room", r, dead_websocket, peer_id,
                                NoFrame, 0, "check_connection_health"), {t}, rest)

\* release() has woken the first waiter: it takes room_lock and runs to its
\* next suspension point
AcquireRoomLock(t) ==
    /\ pc[t] = "lock_wait"
    /\ UNCHANGED nevents
    /\ room_lock = {}
    /\ waiters # <<>>
    /\ Head(waiters) = t
    /\ UNCHANGED <<now, room_id, nrecv>>
    /\ LET k == call[t]
           rest == Tail(waiters)
       IN CASE k.fn = "add_client_to_room" ->
                   add_client_to_room(t, k, rest) /\ UNCHANGED ws_state
            [] k.fn = "update_peer_state" ->
                   update_peer_state(t, k, rest) /\ UNCHANGED ws_state
            [] k.fn = "remove_client_from_room" ->
                   remove_client_from_room(t, k, rest) /\ UNCHANGED ws_state
            [] k.fn = "relay_message" ->
                   relay_message(t, k, rest) /\ UNCHANGED ws_state
            [] k.fn = "broadcast_to_room" ->
                   broadcast_to_room(t, k, rest) /\ UNCHANGED ws_state
            [] k.fn = "send_to_peer" ->
                   send_to_peer(t, k, rest) /\ UNCHANGED ws_state
            [] k.fn = "check_connection_health" ->
                   check_connection_health(t, k, rest, now)

(* ------------------------- websocket_endpoint ------------------------- *)
\* one more event from outside the broker
Event == nevents < MaxEvents /\ nevents' = nevents + 1

\* connections are numbered in the order they arrive
IsNextArrival(c) == IF c = 1 THEN TRUE ELSE pc[c - 1] # "new"

\* the bound on the connections that name another room than MainRoom
RoomAllowed(r) ==
    IF r = MainRoom THEN TRUE
    ELSE Cardinality({d \in Conns : room_id[d] \notin {NoRoom, MainRoom}}) < MaxOtherRoom

\* lines 475-484: a connection for room r arrives, is accepted and calls
\* add_client_to_room
Accept(c, r) ==
    /\ pc[c] = "new"
    /\ Event
    /\ IsNextArrival(c)
    /\ RoomAllowed(r)
    /\ ws_state' = [ws_state EXCEPT ![c] = "open"]
    /\ room_id' = [room_id EXCEPT ![c] = r]
    /\ UNCHANGED <<now, nrecv>>
    /\ LET k == Call("add_client_to_room", r, c, 0, NoFrame, 0, "websocket_endpoint")
       IN IF CanTake
          THEN add_client_to_room(c, k, <<>>)
          ELSE /\ Wait(c, k, room_lock, waiters)
               /\ UNCHANGED <<registry, sent, id_log, removals>>

\* lines 479-481: accept raises, the endpoint returns
AcceptError(c, r) ==
    /\ pc[c] = "new"
    /\ Event
    /\ IsNextArrival(c)
    /\ RoomAllowed(r)
    /\ ws_state' = [ws_state EXCEPT ![c] = "client_closed"]
    /\ room_id' = [room_id EXCEPT ![c] = r]
    /\ pc' = [pc EXCEPT ![c] = "done"]
    /\ UNCHANGED <<registry, room_lock, waiters, now, call, sent, nrecv, id_log, removals>>

\* the client closes its side of the transport
ClientClose(c) ==
    /\ ws_state[c] = "open"
    /\ Event
    /\ ws_state' = [ws_state EXCEPT ![c] = "client_closed"]
    /\ UNCHANGED <<registry, room_lock, waiters, now, room_id, pc, call, sent, nrecv,
                   id_log, removals>>

\* a rejection that treats the connection as admitted: it sends the error
\* and goes on to the receive loop with the websocket left open
RejectRoomFull_stays(c) ==
    /\ pc[c] = "reject"
    /\ UNCHANGED nevents
    /\ sent' = SendAll(sent, <<c>>, Frame("error", 0, <<>>, NoMsg), 0)
    /\ pc' = [pc EXCEPT ![c] = "receive"]
    /\ UNCHANGED <<registry, room_lock, waiters, now, ws_state, room_id, call, nrecv,
                   id_log, removals>>

\* lines 485-495: the ROOM_FULL error is sent and the websocket closed; an
\* exception of either call is swallowed
RejectRoomFull(c) ==
    /\ pc[c] = "reject"
    /\ UNCHANGED nevents
    /\ sent' = SendAll(sent, <<c>>, Frame("error", 0, <<>>, NoMsg), 0)
    /\ ws_state' = [ws_state EXCEPT ![c] = IF @ = "open" THEN "server_closed" ELSE @]
    /\ pc' = [pc EXCEPT ![c] = "done"]
    /\ UNCHANGED <<registry, room_lock, waiters, now, room_id, call, nrecv, id_log,
                   removals>>

\* the peer id websocket c was given (assigned_id of line 484)
AssignedId(c) == room_peer_ids[room_id[c]][IndexOf(rooms[room_id[c]], c)]

\* a welcome that also announces the newcomer to the peers of its room
SendWelcome_announce(c) ==
    /\ pc[c] = "welcome"
    /\ UNCHANGED nevents
    /\ sent' = SendAll(SendAll(sent, <<c>>,
                                Frame("welcome", AssignedId(c), <<>>, NoMsg), 0),
                        rooms[room_id[c]],
                        Frame("peer_joined", AssignedId(c), <<>>, NoMsg), c)
    /\ pc' = [pc EXCEPT ![c] = IF ws_state[c] = "open" THEN "receive" ELSE "done"]
    /\ UNCHANGED <<registry, room_lock, waiters, now, ws_state, room_id, call, nrecv,
                   id_log, removals>>

\* lines 505-516: the welcome is sent; when send_text raises the endpoint
\* returns before it enters the try/finally of line 518
SendWelcome(c) ==
    /\ pc[c] = "welcome"
    /\ UNCHANGED nevents
    /\ sent' = SendAll(sent, <<c>>, Frame("welcome", AssignedId(c), <<>>, NoMsg), 0)
    /\ pc' = [pc EXCEPT ![c] = IF ws_state[c] = "open" THEN "receive" ELSE "done"]
    /\ UNCHANGED <<registry, room_lock, waiters, now, ws_state, room_id, call, nrecv,
                   id_log, removals>>

\* lines 520-521: a text frame is read and handed to relay_message
ReceiveText(c, m) ==
    /\ pc[c] = "receive"
    /\ ws_state[c] = "open"
    /\ nrecv < MaxRecv
    /\ Event
    /\ nrecv' = nrecv + 1
    /\ UNCHANGED <<now, ws_state, room_id>>
    /\ LET k == Call("relay_message", room_id[c], c, 0, Frame("inbound", 0, <<>>, m), 0,
                     "websocket_endpoint")
       IN IF CanTake
          THEN relay_message(c, k, <<>>)
          ELSE /\ Wait(c, k, room_lock, waiters)
               /\ UNCHANGED <<registry, sent, id_log, removals>>

\* lines 523-528: receive_text raises on a closed transport and the finally
\* clause calls remove_client_from_room
ReceiveDisconnect(c) ==
    /\ pc[c] = "receive"
    /\ UNCHANGED nevents
    /\ ws_state[c] # "open"
    /\ UNCHANGED <<now, ws_state, room_id, nrecv>>
    /\ LET k == Call("remove_client_from_room", room_id[c], c, 0, NoFrame, 0,
                     "websocket_endpoint")
       IN IF CanTake
          THEN remove_client_from_room(c, k, <<>>)
          ELSE /\ Wait(c, k, room_lock, waiters)
               /\ UNCHANGED <<registry, sent, id_log, removals>>

\* a reply to get_peers that goes to every connection of the room
SendPeerList_room(c) ==
    /\ pc[c] = "send_peer_list"
    /\ UNCHANGED nevents
    /\ sent' = SendAll(sent, rooms[call[c].room], call[c].msg, 0)
    /\ Leave(c, "receive", waiters)
    /\ UNCHANGED <<registry, now, ws_state, room_id, nrecv, id_log, removals>>

\* lines 171-176: the peer list goes to the sender (an exception is
\* swallowed), relay_message returns and leaves room_lock
SendPeerList(c) ==
    /\ pc[c] = "send_peer_list"
    /\ UNCHANGED nevents
    /\ sent' = SendAll(sent, <<call[c].ws>>, call[c].msg, 0)
    /\ Leave(c, "receive", waiters)
    /\ UNCHANGED <<registry, now, ws_state, room_id, nrecv, id_log, removals>>

(* ------------------------------ the clock ----------------------------- *)
\* 30 seconds pass; the sleep of check_connection_health (line 260) ends and
\* the monitor goes for room_lock
Tick ==
    /\ now < MaxTicks * SweepInterval
    /\ Event
    /\ now' = now + SweepInterval
    /\ UNCHANGED <<room_id, nrecv>>
    /\ LET k == Call("check_connection_health", NoRoom, 0, 0, NoFrame, 0, "startup_event")
       IN IF pc[Monitor] # "sleep"
          THEN UNCHANGED <<registry, room_lock, waiters, ws_state, pc, call, sent, id_log,
                           removals>>
          ELSE IF CanTake
          THEN check_connection_health(Monitor, k, <<>>, now')
          ELSE /\ Wait(Monitor, k, room_lock, waiters)
               /\ UNCHANGED <<registry, ws_state, sent, id_log, removals>>

Next ==
    \/ \E c \in Conns, r \in RoomIds : Accept(c, r)
    \/ \E c \in Conns, r \in RoomIds : AcceptError(c, r)
    \/ \E c \in Conns : ClientClose(c)
    \/ \E t \in Tasks : AcquireRoomLock(t)
    \/ \E c \in Conns : RejectRoomFull(c)
    \/ \E c \in Conns : SendWelcome(c)
    \/ \E c \in Conns, m \in Messages : ReceiveText(c, m)
    \/ \E c \in Conns : ReceiveDisconnect(c)
    \/ \E c \in Conns : SendPeerList(c)
    \/ Tick

Spec == Init /\ [][Next]_vars

(* ------------------------------ properties ---------------------------- *)
\* websocket c has a peer record in the registry
Present(c) == room_id[c] \in DOMAIN rooms /\ c \in Range(rooms[room_id[c]])

\* the frames equal to f that were sent on websocket c
Copies(c, f) == Cardinality({i \in 1..Len(sent[c]) : sent[c][i] = f})

\* task t waits for room_lock while it holds it: only the holder releases
\* the lock, so t stays where it is
Stuck(t) == pc[t] = "lock_wait" /\ room_lock = {t}

\* a task that is stuck stays stuck, the lock stays taken and the broker
\* sends nothing on from the call that is stuck
StuckIsPermanent ==
    [][\A t \in Tasks : Stuck(t) => (Stuck(t)' /\ call'[t] = call[t])]_vars

\* add_client_to_room runs for websocket c in this step
AddRuns(c) ==
    /\ \/ pc[c] = "new"
       \/ pc[c] = "lock_wait" /\ call[c].fn = "add_client_to_room"
    /\ \/ pc'[c] \in {"reject", "welcome"}
       \/ pc'[c] = "lock_wait" /\ call'[c].fn = "update_peer_state"

\* C1: an admission attempt on a room that holds Capacity peers returns None
\* (the endpoint goes to its ROOM_FULL branch) and leaves the peer list, the
\* id list, the states, the heartbeats and the id counter as they were.
C1_FullRoomRejects ==
    [][\A c \in Conns :
          (/\ AddRuns(c)
           /\ room_id'[c] \in DOMAIN rooms
           /\ Len(rooms[room_id'[c]]) = Capacity)
          => (pc'[c] = "reject" /\ UNCHANGED registry)]_vars

C1_Witness ==
    \E c \in Conns :
        /\ pc[c] = "reject"
        /\ room_id[c] \in DOMAIN rooms
        /\ Len(rooms[room_id[c]]) = Capacity
        /\ ~Present(c)

\* C2: in every reachable state every room of the registry has at most
\* Capacity peers.
C2_AtMostCapacity == \A r \in DOMAIN rooms : Len(rooms[r]) <= Capacity

C2_Witness ==
    \E c \in Conns :
        /\ pc[c] = "done"
        /\ Copies(c, Frame("error", 0, <<>>, NoMsg)) = 1
        /\ Len(rooms[room_id[c]]) = Capacity

\* C3: in every room the peers present have pairwise different ids, the
\* first id assigned is 1, and the ids assigned since the room was created
\* strictly increase, so that no id is assigned twice.
C3_IdsUniqueIncreasing ==
    \A r \in DOMAIN rooms :
        /\ \A i, j \in 1..Len(room_peer_ids[r]) :
               i # j => room_peer_ids[r][i] # room_peer_ids[r][j]
        /\ Range(room_peer_ids[r]) \subseteq Range(id_log[r])
        /\ id_log[r] # <<>> => id_log[r][1] = 1
        /\ \A i, j \in 1..Len(id_log[r]) : i < j => id_log[r][i] < id_log[r][j]

C3_Witness ==
    \E r \in DOMAIN rooms :
        /\ Len(id_log[r]) >= 3
        /\ Len(room_peer_ids[r]) = Len(id_log[r]) - 1
        /\ 1 \notin Range(room_peer_ids[r])

\* C4: a room is in the registry only while its peer collection is
\* non-empty: the removal of the last peer deletes the room record.
C4_RoomIffNonEmpty == \A r \in DOMAIN rooms : Len(rooms[r]) > 0

\* the peers of room r other than websocket c whose transport is open
OpenOthers(r, c) == {d \in Range(rooms[r]) \ {c} : ws_state[d] = "open"}

\* C5: when the relay of a broadcast message (an object without to_peer_id
\* and of no control type) of peer A has gone as far as it ever will, every
\* other peer of the room with an open transport holds exactly one copy,
\* which carries from_peer_id = A's id, and A holds none.
C5_BroadcastDelivered ==
    \A c \in Conns :
        (/\ Stuck(c)
         /\ call[c].fn = "broadcast_to_room"
         /\ call[c].caller = "relay_message"
         /\ call[c].msg.type = "relay"
         /\ call[c].msg.msg.json = "object")
        => /\ call[c].msg.msg.from_peer_id = call[c].peer
           /\ Copies(c, call[c].msg) = 0
           /\ \A d \in OpenOthers(call[c].room, c) : Copies(d, call[c].msg) = 1

\* C6: when the relay of a message with to_peer_id = X has gone as far as it
\* ever will, X is a peer of the sender's room and holds the message, and no
\* other peer holds it; with X absent the sender's session goes on instead.
C6_DirectedDelivered ==
    \A c \in Conns :
        (Stuck(c) /\ call[c].fn = "send_to_peer")
        => /\ call[c].peer \in Range(room_peer_ids[call[c].room])
           /\ \A d \in OpenOthers(call[c].room, 0) :
                  Copies(d, call[c].msg) =
                      IF room_peer_ids[call[c].room][IndexOf(rooms[call[c].room], d)]
                         = call[c].peer
                      THEN 1 ELSE 0

\* C7: when the removal of a peer that leaves other peers behind has gone as
\* far as it ever will, every remaining peer with an open transport holds
\* the peer_disconnected message with the removed peer's id.
C7_DepartureNotified ==
    \A t \in Tasks :
        (/\ Stuck(t)
         /\ call[t].fn = "broadcast_to_room"
         /\ call[t].caller = "remove_client_from_room"
         /\ call[t].room \in DOMAIN rooms)
        => \A d \in OpenOthers(call[t].room, 0) :
               Copies(d, Frame("peer_disconnected", call[t].peer, <<>>, NoMsg)) = 1

\* C8: when a monitor sweep that found a peer without heartbeat for more
\* than HeartbeatTimeout seconds has gone as far as it ever will, that
\* peer's record is out of the registry.
C8_DeadPeerEvicted ==
    (Stuck(Monitor) /\ call[Monitor].caller = "check_connection_health")
    => ~Present(call[Monitor].ws)

\* C9: when the endpoint of a connection has returned, the connection has no
\* peer record in the registry, and its record was removed at most once.
C9_ClosedMeansRemoved ==
    \A c \in Conns : pc[c] = "done" => (~Present(c) /\ removals[c] <= 1)

\* C10: no task waits for room_lock while holding it: whoever holds the lock
\* is on its way to release it.
C10_LockReleased == \A t \in Tasks : ~Stuck(t)

\* the ROOM_FULL error frame of lines 487-491
RoomFullError == Frame("error", 0, <<>>, NoMsg)

\* C11: a connection rejected for a full room has been sent nothing before;
\* its rejection sends it the ROOM_FULL error (when its transport is still
\* open) and nothing else, closes it and ends its session, sends nothing to
\* any other peer and leaves the registry and the removal count alone; it
\* never holds a welcome and never is a member of the room.
C11_RejectedSession ==
    /\ [](\A c \in Conns :
            /\ pc[c] = "reject"
               => (sent[c] = <<>> /\ ~Present(c) /\ removals[c] = 0)
            /\ Copies(c, RoomFullError) > 0
               => /\ sent[c] = <<RoomFullError>>
                  /\ pc[c] = "done"
                  /\ ws_state[c] = "server_closed"
                  /\ ~Present(c)
                  /\ removals[c] = 0)
    /\ [][\A c \in Conns :
            pc[c] = "reject" /\ pc'[c] # "reject"
            => /\ pc'[c] = "done"
               /\ ws_state'[c] # "open"
               /\ sent'[c] = IF ws_state[c] = "open" THEN <<RoomFullError>> ELSE <<>>
               /\ \A d \in Conns \ {c} : sent'[d] = sent[d]
               /\ UNCHANGED <<registry, removals>>]_vars

C11_Witness ==
    \E c \in Conns :
        /\ pc[c] = "done"
        /\ sent[c] = <<RoomFullError>>
        /\ ws_state[c] = "server_closed"
        /\ room_id[c] \in DOMAIN rooms
        /\ Len(rooms[room_id[c]]) = Capacity
        /\ \A d \in Range(rooms[room_id[c]]) : Copies(d, RoomFullError) = 0

\* relay_message has come to its heartbeat branch for websocket c in this
\* step: it calls update_peer_state (line 153)
HeartbeatHandled(c) ==
    /\ ~(pc[c] = "lock_wait" /\ call[c].fn = "update_peer_state")
    /\ pc'[c] = "lock_wait"
    /\ call'[c].fn = "update_peer_state"
    /\ call'[c].caller = "relay_message"

\* C12: the handling of a heartbeat of a present peer leaves that peer
\* Connected with lastHeartbeat at the time of the handling, and sends
\* nothing to any peer.
C12_HeartbeatRefreshes ==
    [][\A c \in Conns :
          (HeartbeatHandled(c) /\ Present(c))
          => /\ room_peer_states'[room_id[c]][call'[c].peer] = PEER_STATE_CONNECTED
             /\ room_peer_last_heartbeat'[room_id[c]][call'[c].peer] = now'
             /\ sent' = sent]_vars

\* relay_message builds the reply to get_peers for websocket c in this step
PeerListBuilt(c) == pc[c] # "send_peer_list" /\ pc'[c] = "send_peer_list"

\* f is a peer_list frame with exactly the ids and states of room r
IsSnapshot(f, r) ==
    /\ f.type = "peer_list"
    /\ Len(f.peers) = Len(rooms[r])
    /\ \A i \in 1..Len(f.peers) :
           /\ f.peers[i].id = room_peer_ids[r][i]
           /\ f.peers[i].state = room_peer_states[r][room_peer_ids[r][i]]

\* C13: the handling of a get_peers message changes nothing in the registry
\* and sends one frame, to the sender alone (when its transport is open):
\* a peer_list with exactly the ids and states of the peers of the
\* sender's room at the time it is sent.
C13_GetPeersReply ==
    /\ [](\A c \in Conns :
            pc[c] = "send_peer_list"
            => /\ room_lock = {c}
               /\ Present(c)
               /\ call[c].ws = c
               /\ IsSnapshot(call[c].msg, room_id[c]))
    /\ [][\A c \in Conns :
            /\ PeerListBuilt(c) => (UNCHANGED registry /\ sent' = sent)
            /\ pc[c] = "send_peer_list" /\ pc'[c] # "send_peer_list"
               => /\ UNCHANGED registry
                  /\ pc'[c] = "receive"
                  /\ \A d \in Conns \ {c} : sent'[d] = sent[d]
                  /\ sent'[c] = IF ws_state[c] = "open"
                                THEN Append(sent[c], call[c].msg)
                                ELSE sent[c]]_vars

C13_Witness ==
    \E c \in Conns :
        /\ pc[c] = "receive"
        /\ Len(rooms[room_id[c]]) >= 2
        /\ Len(sent[c]) = 2
        /\ IsSnapshot(sent[c][2], room_id[c])

\* C14: when a broadcast of relay_message has gone as far as it ever will in
\* a room where the transport of one recipient is closed (the send to it
\* fails), every other peer with an open transport holds its copy.
C14_FailureIsolated ==
    \A c \in Conns :
        (/\ Stuck(c)
         /\ call[c].fn = "broadcast_to_room"
         /\ call[c].caller = "relay_message"
         /\ \E d \in Range(rooms[call[c].room]) \ {c} : ws_state[d] # "open")
        => \A d \in OpenOthers(call[c].room, c) : Copies(d, call[c].msg) = 1

\* the text frame that websocket c waits to hand to relay_message, when it
\* is not a JSON object
UnparsedWaiting(c) ==
    /\ pc[c] = "lock_wait"
    /\ call[c].fn = "relay_message"
    /\ call[c].msg.msg.json # "object"

\* C15: a payload that is not a JSON object never gets the heartbeat,
\* get_peers or new_peer_joined handling, and when its relay has gone as far
\* as it ever will (the broadcast of a non-JSON text, the return of
\* relay_message for a JSON non-object) every other peer of the room with an
\* open transport holds the payload verbatim.
C15_UnparsedRelayed ==
    /\ [](\A c \in Conns :
            (/\ Stuck(c)
             /\ call[c].fn = "broadcast_to_room"
             /\ call[c].caller = "relay_message"
             /\ call[c].msg.msg.json # "object")
            => /\ call[c].msg.type = "relay"
               /\ \A d \in OpenOthers(call[c].room, c) : Copies(d, call[c].msg) = 1)
    /\ [][\A c \in Conns :
            (UnparsedWaiting(c) /\ ~UnparsedWaiting(c)' /\ Present(c))
            => /\ pc'[c] # "send_peer_list"
               /\ call'[c].fn # "update_peer_state"
               /\ call'[c].msg.type # "peer_update"
               /\ pc'[c] = "receive"
                  => \A d \in OpenOthers(room_id[c], c) :
                         sent'[d] = Append(sent[d],
                                           Frame("relay", 0, <<>>, call[c].msg.msg))]_vars

\* no frame of a relayed message (relay, peer_update, peer_disconnected) is
\* ever sent on any websocket: the broker sends welcome, error and peer_list
\* frames only
NoRelayDelivered ==
    \A c \in Conns : \A i \in 1..Len(sent[c]) :
        sent[c][i].type \in {"welcome", "error", "peer_list"}

\* websocket c takes a step of its admission: add_client_to_room, the
\* update_peer_state of line 502 or the welcome
AdmissionStep(c) ==
    /\ IF pc[c] = "lock_wait"
       THEN /\ call[c].fn \in {"add_client_to_room", "update_peer_state"}
            /\ call[c].caller = "websocket_endpoint"
       ELSE pc[c] \in {"new", "welcome"}
    /\ <<pc[c], call[c]>>' # <<pc[c], call[c]>>

\* C17 as the claim has it: once a peer is admitted to a room that had
\* members (its welcome is sent), every peer that was in the room before it
\* and has an open transport holds a peer_joined frame with its id.
C17_JoinAnnounced ==
    \A c \in Conns :
        (Present(c) /\ pc[c] = "receive")
        => \A d \in OpenOthers(room_id[c], c) :
               IndexOf(rooms[room_id[c]], d) < IndexOf(rooms[room_id[c]], c)
               => Copies(d, Frame("peer_joined", AssignedId(c), <<>>, NoMsg)) >= 1

\* C17: the admission of a peer sends no frame to any other peer: no step of
\* it changes what another websocket was sent, its last step sends the
\* newcomer the welcome with its id, and no peer_joined frame is ever sent.
C17_JoinNotAnnounced ==
    /\ [](\A c \in Conns : \A i \in 1..Len(sent[c]) : sent[c][i].type # "peer_joined")
    /\ [][\A c \in Conns :
            AdmissionStep(c)
            => /\ \A d \in Conns \ {c} : sent'[d] = sent[d]
               /\ sent'[c] = IF pc[c] = "welcome" /\ ws_state[c] = "open"
                             THEN Append(sent[c], Frame("welcome", AssignedId(c),
                                                        <<>>, NoMsg))
                             ELSE sent[c]]_vars

C17_Witness ==
    \E c \in Conns :
        /\ Present(c)
        /\ pc[c] = "receive"
        /\ sent[c] = <<Frame("welcome", AssignedId(c), <<>>, NoMsg)>>
        /\ \E d \in OpenOthers(room_id[c], c) :
               /\ IndexOf(rooms[room_id[c]], d) < IndexOf(rooms[room_id[c]], c)
               /\ sent[d] = <<Frame("welcome", AssignedId(d), <<>>, NoMsg)>>

(* ----------------------------- /health ------------------------------- *)
\* line 466: sum(len(clients) for clients in rooms.values()) over the rooms
\* of set R
RECURSIVE total_connections(_)
total_connections(R) ==
    IF R = {} THEN 0
    ELSE LET r == CHOOSE x \in R : TRUE
         IN Len(rooms[r]) + total_connections(R \ {r})

\* lines 460-468: the counts the /health handler returns; it reads rooms
\* without room_lock and without suspending, so it may run in any state
health_check ==
    [active_rooms |-> Cardinality(DOMAIN rooms),
     total_connections |-> total_connections(DOMAIN rooms)]

\* C18: the /health snapshot never shows the middle of a removal or of an
\* admission: every room it counts has a connection, so it reports at least
\* as many connections as rooms.
C18_SerializedView == health_check.total_connections >= health_check.active_rooms

\* the peer ids of room r in registry entry ids
IdsOf(ids, r) == IF r \in DOMAIN ids THEN Range(ids[r]) ELSE {}

\* the removal of peer 1 of a room (the first joiner) takes that record
\* alone: the room stays registered, the other peers keep their records and
\* the transport of none of them is closed
NoHostTeardown ==
    [][\A r \in RoomIds :
          (1 \in IdsOf(room_peer_ids, r) /\ 1 \notin IdsOf(room_peer_ids', r))
          => /\ r \in DOMAIN rooms'
             /\ IdsOf(room_peer_ids', r) = IdsOf(room_peer_ids, r) \ {1}
             /\ \A d \in Range(rooms'[r]) : ws_state'[d] = ws_state[d]]_vars

\* the state of the peer record of websocket c
StateOf(c) == room_peer_states[room_id[c]][AssignedId(c)]

\* websocket c is admitted and its endpoint has not yet made the
\* update_peer_state call of line 502
BeforeUpdate(c) ==
    /\ pc[c] = "lock_wait"
    /\ call[c].fn = "update_peer_state"
    /\ call[c].caller = "websocket_endpoint"

\* C20 as the claim has it: a peer from which the broker has read no message
\* yet (its endpoint has not entered the receive loop) is Connecting.
C20_ConnectingUntilTraffic ==
    \A c \in Conns :
        (Present(c) /\ pc[c] = "welcome") => StateOf(c) = PEER_STATE_CONNECTING

\* C20: a peer is Connecting exactly from its admission until the endpoint's
\* own update_peer_state call, which comes before the welcome and before any
\* message of the peer is read; from then on it is Connected for as long as
\* its record exists, and no record ever is Disconnected.
C20_ConnectedBeforeTraffic ==
    /\ [](\A c \in Conns :
            Present(c)
            => /\ StateOf(c) \in {PEER_STATE_CONNECTING, PEER_STATE_CONNECTED}
               /\ StateOf(c) = PEER_STATE_CONNECTING <=> BeforeUpdate(c))
    /\ [][\A r \in DOMAIN room_peer_states : \A p \in DOMAIN room_peer_states[r] :
            (/\ room_peer_states[r][p] = PEER_STATE_CONNECTED
             /\ r \in DOMAIN room_peer_states'
             /\ p \in DOMAIN room_peer_states'[r])
            => room_peer_states'[r][p] = PEER_STATE_CONNECTED]_vars

C20_Witness ==
    \E c, d \in Conns :
        /\ Present(c)
        /\ StateOf(c) = PEER_STATE_CONNECTING
        /\ Present(d)
        /\ pc[d] = "welcome"
        /\ sent[d] = <<>>
        /\ StateOf(d) = PEER_STATE_CONNECTED

\* the key set of a dictionary that holds the ids of Range(ids)
KeysAreIds(d, ids) == DOMAIN d = Range(ids)

\* C21: in every state a task can be suspended in, rooms, room_peer_ids,
\* room_peer_states, room_peer_last_heartbeat and next_peer_id have the same
\* room keys; per room the connection list and the id list have one length
\* and no repeated entry, and the states and the heartbeats are keyed by
\* exactly the ids of the id list. Position i of both lists is one peer: a
\* new connection is paired with the id assigned in that step, and a
\* connection that stays keeps its id whatever is removed around it.
C21_ParallelMaps ==
    /\ [](/\ DOMAIN room_peer_ids = DOMAIN rooms
          /\ DOMAIN room_peer_states = DOMAIN rooms
          /\ DOMAIN room_peer_last_heartbeat = DOMAIN rooms
          /\ DOMAIN next_peer_id = DOMAIN rooms
          /\ Range(room_keys) = DOMAIN rooms
          /\ \A r \in DOMAIN rooms :
                /\ Len(room_peer_ids[r]) = Len(rooms[r])
                /\ Cardinality(Range(rooms[r])) = Len(rooms[r])
                /\ Cardinality(Range(room_peer_ids[r])) = Len(room_peer_ids[r])
                /\ KeysAreIds(room_peer_states[r], room_peer_ids[r])
                /\ KeysAreIds(room_peer_last_heartbeat[r], room_peer_ids[r])
          /\ \A c \in Conns : BeforeUpdate(c) /\ Present(c) => call[c].peer = AssignedId(c))
    /\ [][\A c \in Conns :
            /\ (~Present(c) /\ Present(c)')
               => AssignedId(c)' = id_log'[room_id'[c]][Len(id_log'[room_id'[c]])]
            /\ (Present(c) /\ Present(c)') => AssignedId(c)' = AssignedId(c)]_vars

C21_Witness ==
    \E c, d \in Conns :
        /\ Present(c)
        /\ AssignedId(c) = 2
        /\ IndexOf(rooms[room_id[c]], c) = 1
        /\ DOMAIN room_peer_states[room_id[c]] = {2}
        /\ Present(d)
        /\ room_id[d] # room_id[c]

\* websocket c is admitted and its welcome is not sent yet (lines 484-511)
BeforeWelcome(c) ==
    /\ Present(c)
    /\ IF pc[c] = "lock_wait" THEN BeforeUpdate(c) ELSE pc[c] = "welcome"

\* C23: an admitted connection is sent nothing between its admission and its
\* welcome, whatever the other connections do meanwhile; the first frame it
\* is ever sent is the welcome with its assigned peer id, and it is sent one
\* welcome only.
C23_WelcomeFirst ==
    \A c \in Conns :
        /\ BeforeWelcome(c) => sent[c] = <<>>
        /\ (Present(c) /\ sent[c] # <<>>)
           => sent[c][1] = Frame("welcome", AssignedId(c), <<>>, NoMsg)
        /\ (removals[c] > 0 /\ sent[c] # <<>>) => sent[c][1].type = "welcome"
        /\ Cardinality({i \in 1..Len(sent[c]) : sent[c][i].type = "welcome"}) <= 1

C23_Witness ==
    \E c, d \in Conns :
        /\ Present(c)
        /\ Present(d)
        /\ room_id[d] = room_id[c]
        /\ sent[c] = <<Frame("welcome", AssignedId(c), <<>>, NoMsg)>>
        /\ \E i \in 1..Len(sent[d]) :
               /\ sent[d][i].type = "peer_list"
               /\ \E j \in 1..Len(sent[d][i].peers) :
                      sent[d][i].peers[j] =
                          [id |-> AssignedId(c), state |-> PEER_STATE_CONNECTING]

====
